---------------------------- MODULE Spec2Model ----------------------------
(***************************************************************************)
(* A model of the credit-card statement tool: the statement parser         *)
(* (src/parser/pdf_parser.py), the rule cascade that classifies a          *)
(* transaction (src/classifier/*.py), the aggregation by category and the  *)
(* run of main (src/run.py) up to the spreadsheet sink.                    *)
(*                                                                         *)
(* Text is modelled by TLA+ strings and the regular expressions of the     *)
(* parser by operators that scan those strings.  Amounts are whole cents   *)
(* (every amount the parser produces is read from a token with exactly two *)
(* decimal digits).  A date is <<year, month, day>>; the absent value      *)
(* (Python's None) of a cell, a page text or a date is the empty sequence  *)
(* and a present string s is <<s>>.                                        *)
(***************************************************************************)
EXTENDS Integers, Sequences, FiniteSets, TLC

VARIABLES
    pc,                  \* position of the running operation
    exc,                 \* the exception that left the operation, "" if none
    now,                 \* the clock, <<year, month>> of datetime.now()
    page_num,            \* pages of the document processed so far
    page_tables,         \* Some(page.extract_tables()) of the current page
    page_text,           \* page.extract_text() of the current page
    table_transactions,  \* parse's local of that name
    text_transactions,   \* the text-derived transactions of the current page
    page_start,          \* Len(transactions) when the current page began
    transactions,        \* parse's accumulator / aggregate_by_category's input
    parse_date_arg,      \* the argument of a call of _parse_date
    parse_date_ret,      \* what that call returned
    txn,                 \* the transaction handed to classify_transaction
    category,            \* what classify_transaction returned
    category_totals,     \* aggregate_by_category's first result
    skipped_count,       \* aggregate_by_category's second result
    printed,             \* the messages main has printed, in order
    sink                 \* the calls main has made on the SheetsWriter

vars == <<pc, exc, now, page_num, page_tables, page_text, table_transactions,
          text_transactions, page_start, transactions, parse_date_arg,
          parse_date_ret, txn, category, category_totals, skipped_count,
          printed, sink>>

-----------------------------------------------------------------------------
(* Optional values.                                                        *)

None == <<>>
Some(s) == <<s>>

\* The element of a one-element set.  An intermediate result that is read
\* more than once is bound as "x \in {e}", so that it is computed once.
The(S) == CHOOSE x \in S : TRUE

-----------------------------------------------------------------------------
(* Strings: the str methods and character classes the code uses.           *)

\* s[i], and "" outside the string
Char(s, i) == IF i \in 1..Len(s) THEN SubSeq(s, i, i) ELSE ""

From(s, i) == SubSeq(s, i, Len(s))

Digits == {"0", "1", "2", "3", "4", "5", "6", "7", "8", "9"}

Whitespace == {" ", "\t", "\n"}

UpperLetters ==
    {"A", "B", "C", "D", "E", "F", "G", "H", "I", "J", "K", "L", "M",
     "N", "O", "P", "Q", "R", "S", "T", "U", "V", "W", "X", "Y", "Z"}

DigitVal(c) ==
    CASE c = "0" -> 0 [] c = "1" -> 1 [] c = "2" -> 2 [] c = "3" -> 3
      [] c = "4" -> 4 [] c = "5" -> 5 [] c = "6" -> 6 [] c = "7" -> 7
      [] c = "8" -> 8 [] c = "9" -> 9

UpperChar(c) ==
    CASE c = "a" -> "A" [] c = "b" -> "B" [] c = "c" -> "C" [] c = "d" -> "D"
      [] c = "e" -> "E" [] c = "f" -> "F" [] c = "g" -> "G" [] c = "h" -> "H"
      [] c = "i" -> "I" [] c = "j" -> "J" [] c = "k" -> "K" [] c = "l" -> "L"
      [] c = "m" -> "M" [] c = "n" -> "N" [] c = "o" -> "O" [] c = "p" -> "P"
      [] c = "q" -> "Q" [] c = "r" -> "R" [] c = "s" -> "S" [] c = "t" -> "T"
      [] c = "u" -> "U" [] c = "v" -> "V" [] c = "w" -> "W" [] c = "x" -> "X"
      [] c = "y" -> "Y" [] c = "z" -> "Z" [] OTHER -> c

\* the least element of a set of positive numbers, 0 for the empty set
Least(S) == IF S = {} THEN 0 ELSE CHOOSE k \in S : \A j \in S : k <= j

\* the greatest element of a set of positive numbers, 0 for the empty set
Greatest(S) == IF S = {} THEN 0 ELSE CHOOSE k \in S : \A j \in S : k >= j

RECURSIVE Upper(_)
\* str.upper(), one half of the string after the other
Upper(s) ==
    IF Len(s) <= 1 THEN UpperChar(s)
    ELSE Upper(SubSeq(s, 1, Len(s) \div 2))
            \o Upper(SubSeq(s, Len(s) \div 2 + 1, Len(s)))

\* str.lstrip()
LStrip(s) ==
    From(s, Least({k \in 1..(Len(s) + 1) : Char(s, k) \notin Whitespace}))

\* str.rstrip()
RStrip(s) ==
    SubSeq(s, 1, Greatest({k \in 1..Len(s) : Char(s, k) \notin Whitespace}))

\* str.strip()
Strip(s) == RStrip(LStrip(s))

\* p in s
Contains(s, p) ==
    \E i \in 1..(Len(s) - Len(p) + 1) : SubSeq(s, i, i + Len(p) - 1) = p

\* s.startswith(p)
StartsWith(s, p) == Len(p) <= Len(s) /\ SubSeq(s, 1, Len(p)) = p

\* s.isdigit(), for the ASCII text of the model
IsDigits(s) == s # "" /\ \A i \in 1..Len(s) : Char(s, i) \in Digits

\* the least index >= i of s that holds the character c, 0 if there is none
IndexOf(s, c, i) == Least({k \in i..Len(s) : Char(s, k) = c})

RECURSIVE SplitOn(_, _)
\* s.split(sep) for a one-character separator
SplitOn(s, sep) ==
    The({ IF i > 0 THEN <<SubSeq(s, 1, i - 1)>> \o SplitOn(From(s, i + 1), sep)
          ELSE <<s>> :
          i \in {IndexOf(s, sep, 1)} })

\* the last index of the run of non-whitespace characters that holds index i
WordEnd(s, i) ==
    Least({k \in i..Len(s) : k = Len(s) \/ Char(s, k + 1) \in Whitespace})

RECURSIVE SplitWords(_)
\* s.split(): the maximal runs of non-whitespace characters
SplitWords(s) ==
    The({ IF t = "" THEN <<>>
          ELSE The({ <<SubSeq(t, 1, n)>> \o SplitWords(From(t, n + 1)) :
                     n \in {WordEnd(t, 1)} }) :
          t \in {LStrip(s)} })

RECURSIVE Join(_, _)
\* sep.join(parts)
Join(parts, sep) ==
    IF parts = <<>> THEN ""
    ELSE IF Len(parts) = 1 THEN parts[1]
    ELSE parts[1] \o sep \o Join(Tail(parts), sep)

RECURSIVE Remove(_, _)
\* s.replace(c, '') for a one-character c, one half of s after the other
Remove(s, c) ==
    IF Len(s) <= 1 THEN (IF s = c THEN "" ELSE s)
    ELSE Remove(SubSeq(s, 1, Len(s) \div 2), c)
            \o Remove(SubSeq(s, Len(s) \div 2 + 1, Len(s)), c)

RECURSIVE DigitsValue(_)
\* the number a string of digits denotes ("" denotes 0)
DigitsValue(s) ==
    IF s = "" THEN 0
    ELSE 10 * DigitsValue(SubSeq(s, 1, Len(s) - 1)) + DigitVal(Char(s, Len(s)))

RECURSIVE StripZeros(_)
StripZeros(s) ==
    IF Len(s) > 1 /\ Char(s, 1) = "0" THEN StripZeros(From(s, 2)) ELSE s

\* whether the number a string of digits denotes is at most 2^31 - 1 (the
\* largest value of a C int), decided on the text
FitsCInt(digits) ==
    \E d \in {StripZeros(digits)} :
        \/ Len(d) < 10
        \/ /\ Len(d) = 10
           /\ \E hi \in {DigitsValue(SubSeq(d, 1, 5))} :
                \/ hi < 21474
                \/ hi = 21474 /\ DigitsValue(SubSeq(d, 6, 10)) <= 83647

\* a Python int: its value when it fits a C int, and whether it does
PyInt(v) == [ok |-> TRUE, fits |-> TRUE, val |-> v]

\* the sign ("" if none) and the rest of a stripped numeral
SignAndDigits(t) ==
    IF Char(t, 1) \in {"+", "-"} THEN <<Char(t, 1), From(t, 2)>> ELSE <<"", t>>

\* int(s): [ok |-> FALSE] stands for ValueError
ParseInt(s) ==
    The({ IF ~IsDigits(body) THEN [ok |-> FALSE, fits |-> TRUE, val |-> 0]
          ELSE IF ~FitsCInt(body) THEN [ok |-> TRUE, fits |-> FALSE, val |-> 0]
          ELSE [ok |-> TRUE, fits |-> TRUE,
                val |-> IF sign = "-" THEN 0 - DigitsValue(body)
                        ELSE DigitsValue(body)] :
          <<sign, body>> \in {SignAndDigits(t) : t \in {Strip(s)}} })

\* float(s) in cents, for s of the shape digits* "." digit digit
FloatCents(s) ==
    100 * DigitsValue(SubSeq(s, 1, Len(s) - 3))
        + DigitsValue(SubSeq(s, Len(s) - 1, Len(s)))

-----------------------------------------------------------------------------
(* Calendar: datetime(year, month, day), datetime.weekday().               *)

IsLeap(y) == y % 4 = 0 /\ (y % 100 # 0 \/ y % 400 = 0)

DaysInMonth(y, m) ==
    CASE m \in {1, 3, 5, 7, 8, 10, 12} -> 31
      [] m \in {4, 6, 9, 11} -> 30
      [] OTHER -> IF IsLeap(y) THEN 29 ELSE 28

\* datetime(y, m, d) for Python ints y, m, d: the date, or the exception the
\* constructor raises.  An argument that does not fit a C int raises
\* OverflowError, any other argument out of range raises ValueError.
MakeDate(y, m, d) ==
    IF ~(y.fits /\ m.fits /\ d.fits)
    THEN [err |-> "OverflowError", date |-> None]
    ELSE IF /\ y.val \in 1..9999
            /\ m.val \in 1..12
            /\ d.val >= 1
            /\ d.val <= DaysInMonth(y.val, m.val)
         THEN [err |-> "", date |-> <<y.val, m.val, d.val>>]
         ELSE [err |-> "ValueError", date |-> None]

RECURSIVE DaysBeforeMonth(_, _)
DaysBeforeMonth(y, m) ==
    IF m = 1 THEN 0 ELSE DaysBeforeMonth(y, m - 1) + DaysInMonth(y, m - 1)

\* date.toordinal(): 1 for 0001-01-01
Ordinal(date) ==
    LET y == date[1] - 1
    IN  y * 365 + (y \div 4) - (y \div 100) + (y \div 400)
          + DaysBeforeMonth(date[1], date[2]) + date[3]

\* date.weekday(): 0 = Monday ... 6 = Sunday
Weekday(date) == (Ordinal(date) + 6) % 7

\* InferYear with ">=" for ">"
InferYearFromThisMonth(month, clock) ==
    IF month >= clock[2] THEN clock[1] - 1 ELSE clock[1]

\* "year = datetime.now().year; if month > datetime.now().month: year - 1"
InferYear(month, clock) ==
    IF month > clock[2] THEN clock[1] - 1 ELSE clock[1]

-----------------------------------------------------------------------------
(* Transaction.                                                            *)

Transaction(merchant, date, amount) ==
    [merchant_description |-> Strip(merchant),
     transaction_date |-> date,
     amount |-> amount]

\* the identity key of parse's deduplication
Key(t) == <<t.merchant_description, t.amount, t.transaction_date>>

-----------------------------------------------------------------------------
(* The regular expressions of the parser.                                  *)

IsD(s, i) == Char(s, i) \in Digits
IsW(s, i) == Char(s, i) \in Whitespace
IsU(s, i) == Char(s, i) \in UpperLetters

\* the first index >= i of s that holds no whitespace (Len(s) + 1 if none)
SkipWs(s, i) ==
    IF IsW(s, i) THEN Least({k \in i..(Len(s) + 1) : ~IsW(s, k)}) ELSE i

\* the last index of the maximal run of digits and commas that starts at i
\* (i - 1 when s[i] is neither)
RunEnd(s, i) ==
    IF Char(s, i) \in Digits \cup {","}
    THEN Least({k \in i..Len(s) : Char(s, k + 1) \notin Digits \cup {","}})
    ELSE i - 1

\* ([\d,]+\.\d{2}) matched at index i: the index of its last character, 0 if
\* it does not match there
AmountAt(s, i) ==
    The({ IF k >= i /\ Char(s, k + 1) = "." /\ IsD(s, k + 2) /\ IsD(s, k + 3)
          THEN k + 3 ELSE 0 :
          k \in {RunEnd(s, i)} })

\* the least index >= i at which ([\d,]+\.\d{2}) matches, 0 if there is none
FirstAmount(s, i) == Least({k \in i..Len(s) : AmountAt(s, k) > 0})

\* re.match(r'(\d{1,2})/(\d{1,2})(?:/(\d{2,4}))?', s) is not None
DateCellMatch(s) ==
    /\ IsD(s, 1)
    /\ \/ Char(s, 2) = "/" /\ IsD(s, 3)
       \/ IsD(s, 2) /\ Char(s, 3) = "/" /\ IsD(s, 4)

\* re.search(r'[\$]?([\d,]+\.\d{2})', s): Some(group(1)) of the leftmost
\* match, None without a match
AmountSearch(s) ==
    The({ IF i > 0 THEN Some(SubSeq(s, i, AmountAt(s, i))) ELSE None :
          i \in {FirstAmount(s, 1)} })

NoMatch == [ok |-> FALSE, mon |-> "", day |-> "", last |-> 0]

\* ([A-Z]{3})\s+(\d{1,2}) matched at index i, the day taking two digits when
\* it can: [ok, mon, day, last] with last the index of the last character
SingleAt(s, i) ==
    IF IsU(s, i) /\ IsU(s, i + 1) /\ IsU(s, i + 2) /\ IsW(s, i + 3)
    THEN The({ IF IsD(s, j)
               THEN The({ [ok |-> TRUE, mon |-> SubSeq(s, i, i + 2),
                           day |-> SubSeq(s, j, last), last |-> last] :
                          last \in {IF IsD(s, j + 1) THEN j + 1 ELSE j} })
               ELSE NoMatch :
               j \in {SkipWs(s, i + 3)} })
    ELSE NoMatch

\* ([A-Z]{3})\s+(\d{1,2})\s+([A-Z]{3})\s+(\d{1,2}) matched at index i: mon and
\* day are groups 3 and 4.  The first day is followed by whitespace, so it
\* takes exactly the digits that stand there (one or two).
DualAt(s, i) ==
    The({ IF first.ok /\ IsW(s, first.last + 1)
          THEN The({ SingleAt(s, k) : k \in {SkipWs(s, first.last + 1)} })
          ELSE NoMatch :
          first \in {SingleAt(s, i)} })

\* the least index >= i at which the dual-date pattern matches, 0 if none
FirstDual(s, i) == Least({k \in i..Len(s) : DualAt(s, k).ok})

\* the least index >= i at which the single-date pattern matches, 0 if none
FirstSingle(s, i) == Least({k \in i..Len(s) : SingleAt(s, k).ok})

\* re.search(rbc_date_pattern, line): the leftmost match
DualSearch(s) ==
    The({ IF i > 0 THEN DualAt(s, i) ELSE NoMatch : i \in {FirstDual(s, 1)} })

\* re.search(single_date_pattern, line): the leftmost match
SingleSearch(s) ==
    The({ IF i > 0 THEN SingleAt(s, i) ELSE NoMatch :
          i \in {FirstSingle(s, 1)} })

\* \$\s*([\d,]+\.\d{2})\s*$ matched with its "$" at index p
TrailingAmountAt(s, p) ==
    /\ Char(s, p) = "$"
    /\ \E e \in {AmountAt(s, SkipWs(s, p + 1))} :
        /\ e > 0
        /\ SkipWs(s, e + 1) = Len(s) + 1

\* the least index >= p at which the amount pattern matches, 0 if none
FirstTrailingAmount(s, p) == Least({k \in p..Len(s) : TrailingAmountAt(s, k)})

\* re.search(amount_pattern, line): [ok, start, group] with start the index
\* of the "$" and group the text of group(1)
TrailingAmountSearch(s) ==
    The({ IF p > 0
          THEN The({ [ok |-> TRUE, start |-> p,
                      group |-> SubSeq(s, i, AmountAt(s, i))] :
                     i \in {SkipWs(s, p + 1)} })
          ELSE [ok |-> FALSE, start |-> 0, group |-> ""] :
          p \in {FirstTrailingAmount(s, 1)} })

\* re.match(r'^\d+-\d+$', part) is not None
AccountShape(part) ==
    \E k \in 2..(Len(part) - 1) :
        /\ Char(part, k) = "-"
        /\ IsDigits(SubSeq(part, 1, k - 1))
        /\ IsDigits(From(part, k + 1))

-----------------------------------------------------------------------------
(* PDFParser._parse_date and PDFParser._extract_transactions_from_table.   *)
(* An extraction result is [err, txns]: err names the exception that       *)
(* leaves the function ("" when it returns) and txns is the list returned. *)

NoDate == [err |-> "", date |-> None]

\* "except (ValueError, IndexError): return None" around a date construction
CatchValueError(r) ==
    The({ IF d.err = "ValueError" THEN NoDate ELSE d : d \in {r} })

\* the year of a three-part date: "2000 + int(year_part)" for two
\* characters, "int(year_part)" otherwise
ExplicitYear(year_part) ==
    The({ IF Len(year_part) = 2 /\ y.ok /\ y.fits
          THEN [y EXCEPT !.val = 2000 + y.val]
          ELSE y :
          y \in {ParseInt(year_part)} })

\* the year of the two or three parts of a date string
DateYear(parts, clock) ==
    IF Len(parts) = 2
    THEN The({ IF month.ok /\ month.fits
               THEN PyInt(InferYear(month.val, clock)) ELSE month :
               month \in {ParseInt(parts[1])} })
    ELSE ExplicitYear(parts[3])

\* _parse_date(date_str) read at clock
ParseDate(date_str, clock) ==
    The({ IF Len(parts) \notin {2, 3} THEN NoDate
          ELSE The({ IF ~(month.ok /\ day.ok /\ year.ok) THEN NoDate
                     ELSE CatchValueError(MakeDate(year, month, day)) :
                     month \in {ParseInt(parts[1])},
                     day \in {ParseInt(parts[2])},
                     year \in {DateYear(parts, clock)} }) :
          parts \in {SplitOn(date_str, "/")} })

NoFields == [date_str |-> None, merchant |-> None, amount |-> None]

\* "not amount": no amount captured yet, or the amount 0.0
AmountFalsy(amount) == amount = None \/ amount[1] = 0

\* ScanCell taking merchant text also after the date cell
ScanCellAfterDate(cell, st) ==
    IF cell = None \/ cell[1] = "" THEN st
    ELSE The({ IF DateCellMatch(cell_str) /\ st.date_str = None
               THEN [st EXCEPT !.date_str = Some(cell_str)]
               ELSE IF amount_match # None /\ st.amount = None
               THEN [st EXCEPT
                       !.amount =
                           Some(FloatCents(Remove(amount_match[1], ",")))]
               ELSE IF AmountFalsy(st.amount) /\ Len(cell_str) > 3
               THEN [st EXCEPT
                       !.merchant =
                           IF st.merchant = None
                           THEN Some(cell_str)
                           ELSE Some(st.merchant[1] \o " " \o cell_str)]
               ELSE st :
               <<cell_str, amount_match>> \in
                   {<<c, AmountSearch(c)>> : c \in {Strip(cell[1])}} })

\* one pass of "for cell in row" over cell, from the fields captured so far
ScanCell(cell, st) ==
    IF cell = None \/ cell[1] = "" THEN st
    ELSE The({ IF DateCellMatch(cell_str) /\ st.date_str = None
               THEN [st EXCEPT !.date_str = Some(cell_str)]
               ELSE IF amount_match # None /\ st.amount = None
               THEN [st EXCEPT
                       !.amount =
                           Some(FloatCents(Remove(amount_match[1], ",")))]
               ELSE IF /\ st.date_str = None
                       /\ AmountFalsy(st.amount)
                       /\ Len(cell_str) > 3
               THEN [st EXCEPT
                       !.merchant =
                           IF st.merchant = None
                           THEN Some(cell_str)
                           ELSE Some(st.merchant[1] \o " " \o cell_str)]
               ELSE st :
               <<cell_str, amount_match>> \in
                   {<<c, AmountSearch(c)>> : c \in {Strip(cell[1])}} })

RECURSIVE ScanCells(_, _, _)
\* "for cell in row" from cell i on
ScanCells(row, i, st) ==
    IF i > Len(row) THEN st
    ELSE The({ ScanCells(row, i + 1, next) : next \in {ScanCell(row[i], st)} })

\* RowTransaction without "if amount > 0:"
RowTransactionAnyAmount(st, clock) ==
    IF st.date_str = None \/ st.merchant = None \/ st.amount = None
    THEN [err |-> "", txns |-> <<>>]
    ELSE The({ IF d.err # "" THEN [err |-> d.err, txns |-> <<>>]
               ELSE IF d.date = None THEN [err |-> "", txns |-> <<>>]
               ELSE [err |-> "",
                     txns |-> <<Transaction(st.merchant[1], d.date,
                                            st.amount[1])>>] :
               d \in {ParseDate(st.date_str[1], clock)} })

\* "if date_str and merchant and amount is not None: if amount > 0: ..."
RowTransaction(st, clock) ==
    IF st.date_str = None \/ st.merchant = None \/ st.amount = None
    THEN [err |-> "", txns |-> <<>>]
    ELSE IF st.amount[1] <= 0 THEN [err |-> "", txns |-> <<>>]
    ELSE The({ IF d.err # "" THEN [err |-> d.err, txns |-> <<>>]
               ELSE IF d.date = None THEN [err |-> "", txns |-> <<>>]
               ELSE [err |-> "",
                     txns |-> <<Transaction(st.merchant[1], d.date,
                                            st.amount[1])>>] :
               d \in {ParseDate(st.date_str[1], clock)} })

\* the body of "for row in table" for one row
ExtractRow(row, clock) ==
    IF Len(row) < 2 THEN [err |-> "", txns |-> <<>>]
    ELSE The({ RowTransaction(st, clock) :
               st \in {ScanCells(row, 1, NoFields)} })

RECURSIVE ExtractRows(_, _, _, _)
ExtractRows(table, i, acc, clock) ==
    IF i > Len(table) THEN [err |-> "", txns |-> acc]
    ELSE The({ IF r.err # "" THEN [err |-> r.err, txns |-> <<>>]
               ELSE ExtractRows(table, i + 1, acc \o r.txns, clock) :
               r \in {ExtractRow(table[i], clock)} })

\* _extract_transactions_from_table(table) read at clock
ExtractTable(table, clock) == ExtractRows(table, 1, <<>>, clock)

-----------------------------------------------------------------------------
(* PDFParser._extract_transactions_from_text.                              *)

HeaderWords ==
    {"TRANSACTION", "POSTING", "ACTIVITY", "DESCRIPTION", "AMOUNT", "DATE"}

\* months.get(mon), 0 when mon is no key of months
MonthNumber(mon) ==
    CASE mon = "JAN" -> 1 [] mon = "FEB" -> 2 [] mon = "MAR" -> 3
      [] mon = "APR" -> 4 [] mon = "MAY" -> 5 [] mon = "JUN" -> 6
      [] mon = "JUL" -> 7 [] mon = "AUG" -> 8 [] mon = "SEP" -> 9
      [] mon = "OCT" -> 10 [] mon = "NOV" -> 11 [] mon = "DEC" -> 12
      [] OTHER -> 0

\* "if month_str in months: ... transaction_date = datetime(year, month, day)"
\* for a match m of a date pattern: [err, date, date_end]
MatchedDate(m, clock) ==
    The({ IF month = 0 THEN [err |-> "", date |-> None, date_end |-> m.last]
          ELSE The({ [err |-> r.err, date |-> r.date, date_end |-> m.last] :
                     r \in {MakeDate(PyInt(InferYear(month, clock)),
                                     PyInt(month),
                                     PyInt(DigitsValue(m.day)))} }) :
          month \in {MonthNumber(m.mon)} })

\* "date_match = re.search(rbc_date_pattern, line); if date_match: ... else:
\* single_match = re.search(single_date_pattern, line)": the match whose
\* groups give the date
DateSearch(line) ==
    The({ IF date_match.ok THEN date_match ELSE SingleSearch(line) :
          date_match \in {DualSearch(line)} })

\* the date of a line: the dual-date pattern, else the single-date pattern
LineDate(line, clock) ==
    The({ IF m.ok THEN MatchedDate(m, clock)
          ELSE [err |-> "", date |-> None, date_end |-> 0] :
          m \in {DateSearch(line)} })

\* the parts of the merchant text that are kept
KeepPart(part) ==
    /\ ~(IsDigits(part) /\ Len(part) >= 15)
    /\ ~AccountShape(part)

\* the merchant of a line from the text between its date and its amount
CleanMerchant(text_between) ==
    Strip(Join(SelectSeq(SplitWords(text_between), KeepPart), " "))

IsHeaderLine(line) == \E header \in HeaderWords : Contains(Upper(line), header)

\* "if amount_match: ..." for a line with the date transaction_date that
\* ends at date_end
AmountLine(line, transaction_date, date_end, amount_match) ==
    The({ IF Len(merchant) < 2 THEN [err |-> "", txns |-> <<>>]
          ELSE IF amount > 0
          THEN [err |-> "",
                txns |-> <<Transaction(merchant, transaction_date, amount)>>]
          ELSE [err |-> "", txns |-> <<>>] :
          merchant \in {CleanMerchant(
                            Strip(SubSeq(line, date_end + 1,
                                         amount_match.start - 1)))},
          amount \in {FloatCents(Remove(amount_match.group, ","))} })

\* the rest of the loop body once the date d of the line is known
DatedLine(line, d) ==
    IF d.err # "" THEN [err |-> d.err, txns |-> <<>>]
    ELSE IF d.date = None THEN [err |-> "", txns |-> <<>>]
    ELSE The({ IF amount_match.ok
               THEN AmountLine(line, d.date, d.date_end, amount_match)
               ELSE [err |-> "", txns |-> <<>>] :
               amount_match \in {TrailingAmountSearch(line)} })

\* the body of "while i < len(lines)" for one line
ExtractLine(raw, clock) ==
    The({ IF line = "" \/ IsHeaderLine(line) THEN [err |-> "", txns |-> <<>>]
          ELSE The({ DatedLine(line, d) : d \in {LineDate(line, clock)} }) :
          line \in {Strip(raw)} })

RECURSIVE ExtractLines(_, _, _, _)
ExtractLines(lines, i, acc, clock) ==
    IF i > Len(lines) THEN [err |-> "", txns |-> acc]
    ELSE The({ IF r.err # "" THEN [err |-> r.err, txns |-> <<>>]
               ELSE ExtractLines(lines, i + 1, acc \o r.txns, clock) :
               r \in {ExtractLine(lines[i], clock)} })

\* _extract_transactions_from_text(text) read at clock
ExtractText(text, clock) ==
    The({ ExtractLines(lines, 1, <<>>, clock) :
          lines \in {SplitOn(text, "\n")} })

-----------------------------------------------------------------------------
(* The classifier: rules.py, food_detector.py, classify.py.  An amount is  *)
(* in cents, so the code's 25, 10 and 100 read 2500, 1000 and 10000.       *)

CATEGORIES ==
    <<"school meals", "food", "groceries", "presto", "school", "personal",
      "mom stuff", "other">>

IGNORE_PATTERNS ==
    <<"PAYMENT", "THANK YOU", "PAIEMENT", "BALANCE", "INTEREST", "FEE">>

HARD_OVERRIDES ==
    << <<"PRESTO", "presto">>, <<"FLYWIRE", "personal">>,
       <<"OCAS", "personal">>, <<"OPENAI", "personal">>,
       <<"CU* RM FINANCE", "school">>, <<"WAL-MART", "groceries">>,
       <<"WALMART", "groceries">>, <<"FRESHCO", "groceries">>,
       <<"FORTINOS", "groceries">>, <<"DOLLARAMA", "groceries">>,
       <<"SHOPPERS", "groceries">>, <<"SPOTIFY", "other">>,
       <<"CITY OF", "other">> >>

FOOD_KEYWORDS ==
    <<"MCDONALD", "KFC", "TACO", "BURRITO", "SUB", "PIZZA", "SHELBYS",
      "TIM HORTONS", "STARBUCKS", "COFFEE", "CAFE", "RESTAURANT", "DINER",
      "GRILL", "BISTRO", "KITCHEN", "UBER EATS", "UBEREATS", "DOORDASH",
      "SKIP">>

FOOD_EXCLUSIONS ==
    <<"FRESHCO", "FORTINOS", "LOBLAWS", "WAL-MART", "WALMART", "DOLLARAMA",
      "SHOPPERS", "SUPERCENTER">>

\* any(pattern in text for pattern in patterns)
ContainsAny(text, patterns) ==
    \E k \in 1..Len(patterns) : Contains(text, patterns[k])

\* ShouldIgnore without ".upper()"
ShouldIgnoreCaseSensitive(merchant_description) ==
    ContainsAny(merchant_description, IGNORE_PATTERNS)

\* should_ignore(merchant_description)
ShouldIgnore(merchant_description) ==
    ContainsAny(Upper(merchant_description), IGNORE_PATTERNS)

OverrideMatches(merchant_upper, pattern) ==
    StartsWith(merchant_upper, pattern) \/ Contains(merchant_upper, pattern)

\* the positions of HARD_OVERRIDES whose pattern matches
OverrideHits(merchant_upper) ==
    {k \in 1..Len(HARD_OVERRIDES) :
         OverrideMatches(merchant_upper, HARD_OVERRIDES[k][1])}

\* get_hard_override(merchant_description): Some(category) of the first
\* pattern that matches, None without one
GetHardOverride(merchant_description) ==
    The({ IF hits = {} THEN None
          ELSE Some(HARD_OVERRIDES[CHOOSE k \in hits :
                                       \A j \in hits : k <= j][2]) :
          hits \in {OverrideHits(Upper(merchant_description))} })

\* is_food_type_merchant(merchant_description, amount)
IsFoodTypeMerchant(merchant_description, amount) ==
    \E merchant_upper \in {Upper(merchant_description)} :
        IF ContainsAny(merchant_upper, FOOD_EXCLUSIONS) THEN FALSE
        ELSE IF ContainsAny(merchant_upper, FOOD_KEYWORDS) THEN TRUE
        ELSE amount <= 2500 /\ Len(merchant_description) < 40

\* FoodCategory with "weekday <= 5"
FoodCategoryThroughSaturday(transaction_date) ==
    IF Weekday(transaction_date) <= 5 THEN "school meals" ELSE "food"

\* step 3 of classify_transaction for a food-type merchant
FoodCategory(transaction_date) ==
    IF Weekday(transaction_date) < 5 THEN "school meals" ELSE "food"

\* AmountFallback with "amount > 100"
AmountFallbackAbove(amount) ==
    IF amount > 10000 THEN "school"
    ELSE IF amount <= 1000 THEN "groceries"
    ELSE "other"

\* step 4 of classify_transaction
AmountFallback(amount) ==
    IF amount >= 10000 THEN "school"
    ELSE IF amount <= 1000 THEN "groceries"
    ELSE "other"

\* ClassifyTransaction with step 3 before step 2
ClassifyFoodFirst(merchant_description, transaction_date, amount) ==
    IF ShouldIgnore(merchant_description) THEN None
    ELSE IF IsFoodTypeMerchant(merchant_description, amount)
    THEN Some(FoodCategory(transaction_date))
    ELSE The({ IF override # None THEN override
               ELSE Some(AmountFallback(amount)) :
               override \in {GetHardOverride(merchant_description)} })

\* classify_transaction(merchant_description, transaction_date, amount):
\* Some(category), or None for the verdict IGNORE
ClassifyTransaction(merchant_description, transaction_date, amount) ==
    IF ShouldIgnore(merchant_description) THEN None
    ELSE The({ IF override # None THEN override
               ELSE IF IsFoodTypeMerchant(merchant_description, amount)
               THEN Some(FoodCategory(transaction_date))
               ELSE Some(AmountFallback(amount)) :
               override \in {GetHardOverride(merchant_description)} })

Classify(t) ==
    ClassifyTransaction(t.merchant_description, t.transaction_date, t.amount)

CategorySet == {CATEGORIES[k] : k \in 1..Len(CATEGORIES)}

\* "category_totals = {cat: 0.0 for cat in CATEGORIES}; skipped_count = 0"
NoTotals ==
    [err |-> "", totals |-> [c \in CategorySet |-> 0], skipped |-> 0]

\* the body of "for transaction in transactions" for one transaction
AggregateStep(acc, t) ==
    The({ IF verdict = None THEN [acc EXCEPT !.skipped = acc.skipped + 1]
          ELSE IF verdict[1] \notin DOMAIN acc.totals
          THEN [acc EXCEPT !.err = "ValueError"]
          ELSE [acc EXCEPT !.totals[verdict[1]] = @ + t.amount] :
          verdict \in {Classify(t)} })

RECURSIVE AggregateLoop(_, _, _)
AggregateLoop(list, i, acc) ==
    IF i > Len(list) \/ acc.err # "" THEN acc
    ELSE The({ AggregateLoop(list, i + 1, next) :
               next \in {AggregateStep(acc, list[i])} })

\* DropZeroTotals with "if v >= 0"
DropNegativeTotals(totals) ==
    [k \in {c \in DOMAIN totals : totals[c] >= 0} |-> totals[k]]

\* "{k: v for k, v in category_totals.items() if v > 0}"
DropZeroTotals(totals) ==
    [k \in {c \in DOMAIN totals : totals[c] > 0} |-> totals[k]]

\* aggregate_by_category(transactions): [err, totals, skipped]
AggregateByCategory(list) ==
    The({ IF acc.err # "" THEN acc
          ELSE [acc EXCEPT !.totals = DropZeroTotals(acc.totals)] :
          acc \in {AggregateLoop(list, 1, NoTotals)} })

-----------------------------------------------------------------------------
(* PDFParser.parse: the merge of one page.                                 *)

\* "if text:", "if tables:", "if not cell" for an optional string
Truthy(opt) == opt # None /\ opt[1] # ""

RECURSIVE ExtractTables(_, _, _, _)
\* "for table in tables: table_transactions.extend(...)"
ExtractTables(tables, i, acc, clock) ==
    IF i > Len(tables) THEN [err |-> "", txns |-> acc]
    ELSE The({ IF r.err # "" THEN [err |-> r.err, txns |-> <<>>]
               ELSE ExtractTables(tables, i + 1, acc \o r.txns, clock) :
               r \in {ExtractTable(tables[i], clock)} })

RECURSIVE MergeTextNoAdd(_, _, _, _)
\* MergeText without "existing.add(key)"
MergeTextNoAdd(text_txns, i, existing, acc) ==
    IF i > Len(text_txns) THEN acc
    ELSE The({ IF key \notin existing
               THEN MergeTextNoAdd(text_txns, i + 1, existing,
                                   Append(acc, text_txns[i]))
               ELSE MergeTextNoAdd(text_txns, i + 1, existing, acc) :
               key \in {Key(text_txns[i])} })

RECURSIVE MergeText(_, _, _, _)
\* "for t in text_transactions: if key not in existing: ... existing.add(key)"
MergeText(text_txns, i, existing, acc) ==
    IF i > Len(text_txns) THEN acc
    ELSE The({ IF key \notin existing
               THEN MergeText(text_txns, i + 1, existing \cup {key},
                              Append(acc, text_txns[i]))
               ELSE MergeText(text_txns, i + 1, existing, acc) :
               key \in {Key(text_txns[i])} })

\* MergePage with a duplicate-tracking set that also holds the keys of the
\* transactions of the pages before
MergePageShared(table_txns, text_txns) ==
    IF table_txns # <<>>
    THEN table_txns
           \o MergeText(text_txns, 1,
                        {Key(table_txns[k]) : k \in 1..Len(table_txns)}
                          \cup {Key(transactions[k]) :
                                    k \in 1..Len(transactions)}, <<>>)
    ELSE text_txns

\* what "if table_transactions: ... else: ..." appends to transactions
MergePage(table_txns, text_txns) ==
    IF table_txns # <<>>
    THEN table_txns
           \o MergeText(text_txns, 1,
                        {Key(table_txns[k]) : k \in 1..Len(table_txns)}, <<>>)
    ELSE text_txns

\* what one page appends to transactions: the merge stands inside "if text:"
PageOutput(text, table_txns, text_txns) ==
    IF Truthy(text) THEN MergePage(table_txns, text_txns) ELSE <<>>

-----------------------------------------------------------------------------
(* The statement documents of the model: rows as page.extract_tables()     *)
(* returns them and lines as page.extract_text() returns them.             *)

MaxPages == 2

RowA == <<Some("MCDONALDS #1"), Some("11/25"), Some("$3.38")>>
RowB == <<Some("STORE"), None, Some("3/9/25"), Some("12.00")>>
RowHeader == <<Some("Description"), Some("Date"), Some("Amount")>>
RowDateFirst == <<Some("11/25"), Some("MCDONALDS #1"), Some("$3.38")>>
RowBadDate == <<Some("STORE"), Some("11/31"), Some("5.00")>>
RowZero == <<Some("STORE"), Some("11/25"), Some("0.00")>>
RowNegative == <<Some("REFUND"), Some("-5.00"), Some("12/25")>>
RowOverflow == <<Some("STORE"), Some("1/1/99999999999"), Some("5.00")>>
RowShort == <<Some("STORE 11/25 $5.00")>>
RowTwoCells == <<Some("TIM HORTONS"), Some("#123 BRAMPTON"), Some(""),
                 Some(" 2/14 "), Some("1,234.56")>>
RowAmountFirst == <<Some("5.00"), Some("STORE"), Some("11/25")>>
RowZeroFirst == <<Some("0.00"), Some("STORE"), Some("11/25"), Some("5.00")>>
RowNoAmount == <<Some("STORE"), Some("11/25"), Some("5.0")>>

LineA == "NOV 23 NOV 25 MCDONALDS #1 $3.38"
LineB == "MAR 09 UBER EATS 123456789012345 $12.00"
LineBadDay == "NOV 31 STORE $5.00"
LineDayZero == "JAN 0 STORE $5.00"
LineLeapDay == "FEB 29 STORE $5.00"
LineNoMonth == "NOV 25 ABC 12 STORE $5.00"
LineSingle == "  DEC 25 STORE 12-34 $1,234.56"
LineHeader == "Date Description Amount"
LineZero == "NOV 25 STORE $0.00"
LineShortMerchant == "NOV 25 A $5.00"
LineNoDollar == "NOV 25 STORE 5.00"
LineNoDate == "Previous balance $5.00"
LinePayment == "DEC 01 PAYMENT - THANK YOU $50.00"

\* what page.extract_tables() returns for a page of the document
PageTableChoices ==
    { <<>>,
      << <<RowHeader, RowA>> >>,
      << <<RowA>>, <<RowB>> >>,
      << <<RowZero, RowA, RowA>> >>,
      << <<RowBadDate, RowZero>> >>,
      << <<RowOverflow>> >> }

\* what page.extract_text() returns for a page of the document
PageTextChoices ==
    { None,
      Some(""),
      Some(LineA),
      Some(LineB \o "\n" \o LineB \o "\n" \o LineA),
      Some(LineHeader \o "\n\n" \o LineZero \o "\n" \o LineB),
      Some(LinePayment \o "\n" \o LineA),
      Some(LineBadDay) }

\* the <<year, month>> that datetime.now() shows while a statement is
\* parsed; one call reads the clock at one instant
Clocks == {<<2025, 3>>, <<2025, 12>>, <<2024, 2>>}

NoTxn == [merchant_description |-> "", transaction_date |-> None, amount |-> 0]

pageVars == <<page_num, page_tables, page_text, table_transactions,
              text_transactions, page_start>>
dateVars == <<parse_date_arg, parse_date_ret>>
classifyVars == <<txn, category>>
aggregateVars == <<category_totals, skipped_count>>
mainVars == <<printed, sink>>

\* the values of the variables before the operation that writes them
NoPage ==
    /\ page_num = 0
    /\ page_tables = <<>>
    /\ page_text = None
    /\ table_transactions = <<>>
    /\ text_transactions = <<>>
    /\ page_start = 0
NoDateCall == parse_date_arg = "" /\ parse_date_ret = None
NoClassification == txn = NoTxn /\ category = None
NoAggregation == category_totals = <<>> /\ skipped_count = 0
NoMain == printed = <<>> /\ sink = <<>>

-----------------------------------------------------------------------------
(* Spec: PDFParser.parse over a document of at most MaxPages pages, one    *)
(* step per statement block of the page loop.                              *)

Init ==
    /\ pc = "page"
    /\ exc = ""
    /\ now \in Clocks
    /\ transactions = <<>>
    /\ NoPage
    /\ NoDateCall
    /\ NoClassification
    /\ NoAggregation
    /\ NoMain

\* lines 44-64: the next page's tables are read and extracted
PageTables ==
    /\ pc = "page"
    /\ page_num < MaxPages
    /\ \E tables \in PageTableChoices :
         \E r \in {ExtractTables(tables, 1, <<>>, now)} :
             /\ page_tables' = tables
             /\ table_transactions' = r.txns
             /\ exc' = r.err
             /\ pc' = IF r.err # "" THEN "raised" ELSE "text"
    /\ page_num' = page_num + 1
    /\ page_text' = None
    /\ text_transactions' = <<>>
    /\ page_start' = Len(transactions)
    /\ UNCHANGED <<now, transactions, dateVars, classifyVars, aggregateVars,
                   mainVars>>

\* line 74 for the text of the page, an empty list when "if text:" fails
PageTextTransactions(text, clock) ==
    IF Truthy(text) THEN ExtractText(text[1], clock)
    ELSE [err |-> "", txns |-> <<>>]

\* lines 66-92: the page's text is read, extracted and merged
PageText ==
    /\ pc = "text"
    /\ \E text \in PageTextChoices :
         \E r \in {PageTextTransactions(text, now)} :
             /\ page_text' = text
             /\ text_transactions' = r.txns
             /\ exc' = r.err
             /\ pc' = IF r.err # "" THEN "raised" ELSE "page"
             /\ transactions' =
                  IF r.err # "" THEN transactions
                  ELSE transactions
                         \o PageOutput(text, table_transactions, r.txns)
    /\ UNCHANGED <<now, page_num, page_tables, table_transactions, page_start,
                   dateVars, classifyVars, aggregateVars, mainVars>>

\* lines 94-95: the document has no further page
Return ==
    /\ pc = "page"
    /\ pc' = "returned"
    /\ UNCHANGED <<exc, now, pageVars, transactions, dateVars, classifyVars,
                   aggregateVars, mainVars>>

Next == PageTables \/ PageText \/ Return

Spec == Init /\ [][Next]_vars

\* a page has been processed to its end
PageDone == pc \in {"page", "returned"} /\ page_num > 0

\* what the page processed last appended to transactions
PageOut == SubSeq(transactions, page_start + 1, Len(transactions))

\* how often t occurs in list
Count(t, list) == Cardinality({k \in 1..Len(list) : list[k] = t})

Keys(list) == {Key(list[k]) : k \in 1..Len(list)}

\* C1: every transaction that table extraction produced on a page is in
\* the list parse returns, as often as table extraction produced it,
\* whatever the page's text extraction returned.
C1_TableTransactionsKept ==
    PageDone =>
        \A k \in 1..Len(table_transactions) :
            Count(table_transactions[k], PageOut)
                >= Count(table_transactions[k], table_transactions)

\* the positions of the page's text-derived transactions whose key is not
\* a table-derived key of the page and not the key of an earlier
\* text-derived transaction of the page
Accepted ==
    {i \in 1..Len(text_transactions) :
        /\ Key(text_transactions[i]) \notin Keys(table_transactions)
        /\ \A j \in 1..(i - 1) :
               Key(text_transactions[j]) # Key(text_transactions[i])}

\* the k-th least element of a set of numbers
Nth(S, k) == CHOOSE i \in S : Cardinality({j \in S : j <= i}) = k

\* C2: on a page with table-derived and text-derived transactions the
\* page's output is the table-derived transactions followed by exactly the
\* text-derived transactions whose key is neither a table-derived key nor
\* the key of a text-derived transaction accepted before, so a key that
\* both extractions produced once occurs once; on a page without
\* table-derived transactions the output is all text-derived transactions.
C2_PageMerge ==
    PageDone =>
        /\ table_transactions = <<>> => PageOut = text_transactions
        /\ table_transactions # <<>> /\ text_transactions # <<>> =>
            /\ Len(PageOut) = Len(table_transactions) + Cardinality(Accepted)
            /\ SubSeq(PageOut, 1, Len(table_transactions)) = table_transactions
            /\ \A k \in 1..Cardinality(Accepted) :
                   PageOut[Len(table_transactions) + k]
                       = text_transactions[Nth(Accepted, k)]
            /\ \A i \in 1..Len(text_transactions) :
                   Count(text_transactions[i], table_transactions) = 1
                       => Count(text_transactions[i], PageOut) = 1

\* a page whose two table-derived transactions include the key of a
\* text-derived one, and whose text holds another key twice: three of the
\* five are in the output
C2_DuplicateMerged ==
    /\ PageDone
    /\ Len(table_transactions) = 2
    /\ Len(text_transactions) = 3
    /\ Keys(text_transactions) \cap Keys(table_transactions) # {}
    /\ Cardinality(Accepted) = 1
    /\ Len(PageOut) = 3

\* the transactions of the pages before the page processed last
Earlier == SubSeq(transactions, 1, page_start)

\* how many transactions of list have the key
CountKey(key, list) == Cardinality({k \in 1..Len(list) : Key(list[k]) = key})

\* C13: the duplicate-tracking set belongs to one page.  On a page with
\* text, every key that the page's table or text extraction produced is in
\* the page's output, also when a transaction with that key was accepted
\* on a page before; the final list then holds the key once more than the
\* pages before gave it.
C13_ExistingIsPerPage ==
    (PageDone /\ Truthy(page_text)) =>
        \A key \in Keys(table_transactions) \cup Keys(text_transactions) :
            /\ key \in Keys(PageOut)
            /\ CountKey(key, transactions) > CountKey(key, Earlier)

\* the second page has table-derived transactions and accepts a
\* text-derived transaction whose key a transaction of the first page has:
\* the list holds that key twice
C13_SameKeyOnTwoPages ==
    /\ PageDone
    /\ page_num = 2
    /\ table_transactions # <<>>
    /\ \E i \in Accepted :
           /\ CountKey(Key(text_transactions[i]), Earlier) = 1
           /\ CountKey(Key(text_transactions[i]), transactions) = 2


\* C9: every transaction parse holds or returns has a strictly positive
\* amount; a row or a line with the amount 0.00 produces none.
C9_PositiveAmounts ==
    /\ \A k \in 1..Len(transactions) : transactions[k].amount > 0
    /\ \A k \in 1..Len(table_transactions) : table_transactions[k].amount > 0
    /\ \A k \in 1..Len(text_transactions) : text_transactions[k].amount > 0
    /\ page_tables = << <<RowBadDate, RowZero>> >> => table_transactions = <<>>
    /\ /\ PageDone
       /\ page_text = Some(LineHeader \o "\n\n" \o LineZero \o "\n" \o LineB)
       => Len(text_transactions) = 1

\* parse returned transactions from a document whose last page holds a row
\* and a line with the amount 0.00
C9_ZeroAmountsDropped ==
    /\ pc = "returned"
    /\ page_tables = << <<RowZero, RowA, RowA>> >>
    /\ page_text = Some(LineHeader \o "\n\n" \o LineZero \o "\n" \o LineB)
    /\ Len(table_transactions) = 2
    /\ Len(PageOut) = 3

-----------------------------------------------------------------------------
(* SpecExtract: single calls of _parse_date, of                            *)
(* _extract_transactions_from_table and of _extract_transactions_from_text *)
(* on date strings, on tables of at most MaxRows rows and on texts of at   *)
(* most MaxLines lines.                                                    *)

MaxRows == 2
MaxLines == 2

\* the sequences over S of length 0..n
RECURSIVE SeqsUpTo(_, _)
SeqsUpTo(S, n) ==
    IF n = 0 THEN {<<>>}
    ELSE UNION { {q} \cup {Append(q, x) : x \in S} : q \in SeqsUpTo(S, n - 1) }

DocRows ==
    {RowA, RowB, RowHeader, RowDateFirst, RowBadDate, RowZero, RowNegative,
     RowOverflow, RowShort, RowTwoCells, RowAmountFirst, RowZeroFirst,
     RowNoAmount}

DocLines ==
    {LineA, LineB, LineBadDay, LineDayZero, LineLeapDay, LineNoMonth,
     LineSingle, LineHeader, LineZero, LineShortMerchant, LineNoDollar,
     LineNoDate}

\* the strings handed to _parse_date
DateStrings ==
    {"12/25", "02/14", "3/9", "11/31", "2/29", "13/1", "0/5", " 2/14 ",
     "3/9/25", "12/25/2023", "2/29/24", "11/25/5", "1/1/99999999999",
     "1/2/3/4", "11", "ab/cd", "12/-5"}

InitExtract ==
    /\ pc = "call"
    /\ exc = ""
    /\ now \in Clocks
    /\ transactions = <<>>
    /\ NoPage
    /\ NoDateCall
    /\ NoClassification
    /\ NoAggregation
    /\ NoMain

\* lines 279-305: one call of _parse_date
CallParseDate ==
    /\ pc = "call"
    /\ \E date_str \in DateStrings :
         \E r \in {ParseDate(date_str, now)} :
             /\ parse_date_arg' = date_str
             /\ parse_date_ret' = r.date
             /\ exc' = r.err
    /\ pc' = "parse_date_returned"
    /\ UNCHANGED <<now, pageVars, transactions, classifyVars, aggregateVars,
                   mainVars>>

\* lines 97-155: one call of _extract_transactions_from_table
CallExtractTable ==
    /\ pc = "call"
    /\ \E table \in SeqsUpTo(DocRows, MaxRows) :
         \E r \in {ExtractTable(table, now)} :
             /\ page_tables' = <<table>>
             /\ table_transactions' = r.txns
             /\ exc' = r.err
    /\ pc' = "table_returned"
    /\ UNCHANGED <<now, page_num, page_text, text_transactions, page_start,
                   transactions, dateVars, classifyVars, aggregateVars,
                   mainVars>>

\* lines 157-277: one call of _extract_transactions_from_text
CallExtractText ==
    /\ pc = "call"
    /\ \E lines \in SeqsUpTo(DocLines, MaxLines) :
         \E text \in {Join(lines, "\n")} :
             \E r \in {ExtractText(text, now)} :
                 /\ page_text' = Some(text)
                 /\ text_transactions' = r.txns
                 /\ exc' = r.err
    /\ pc' = "text_returned"
    /\ UNCHANGED <<now, page_num, page_tables, table_transactions, page_start,
                   transactions, dateVars, classifyVars, aggregateVars,
                   mainVars>>

NextExtract == CallParseDate \/ CallExtractTable \/ CallExtractText

SpecExtract == InitExtract /\ [][NextExtract]_vars

\* what a row yields when it is the only row of its table
RowAlone(row) ==
    IF ExtractTable(<<row>>, now).err = ""
    THEN ExtractTable(<<row>>, now).txns ELSE <<>>

\* what a line yields when it is the only line of its text
LineAlone(line) ==
    IF ExtractText(line, now).err = ""
    THEN ExtractText(line, now).txns ELSE <<>>

RECURSIVE RowsAlone(_)
RowsAlone(table) ==
    IF table = <<>> THEN <<>>
    ELSE RowAlone(Head(table)) \o RowsAlone(Tail(table))

RECURSIVE LinesAlone(_)
LinesAlone(lines) ==
    IF lines = <<>> THEN <<>>
    ELSE LineAlone(Head(lines)) \o LinesAlone(Tail(lines))

\* C3: a malformed amount, an unparsable date or a missing field drops
\* only its own row or line: no extraction raises an error, and the
\* result is what the other rows or lines yield.
C3_DropsOnlyThatRowOrLine ==
    /\ pc = "table_returned" =>
        /\ exc = ""
        /\ table_transactions = RowsAlone(page_tables[1])
    /\ pc = "text_returned" =>
        /\ exc = ""
        /\ text_transactions = LinesAlone(SplitOn(page_text[1], "\n"))

\* the date string holds a month and a day and no year
Yearless(date_str) == Len(SplitOn(date_str, "/")) = 2

\* the year of the date is the clock's year, or the year before when the
\* month of the date is greater than the clock's month
Inferred(date) ==
    /\ date[2] > now[2] => date[1] = now[1] - 1
    /\ date[2] <= now[2] => date[1] = now[1]

\* the year written as the third part of a date string
WrittenYear(date_str) ==
    IF Len(SplitOn(date_str, "/")[3]) = 2
    THEN 2000 + DigitsValue(SplitOn(date_str, "/")[3])
    ELSE DigitsValue(SplitOn(date_str, "/")[3])

\* no cell of the table holds a date with a year
YearlessTable(table) ==
    \A i \in 1..Len(table) : \A j \in 1..Len(table[i]) :
        table[i][j] # None => Len(SplitOn(table[i][j][1], "/")) <= 2

\* C10: a date recognized without a year gets the current year, or the
\* year before when its month is greater than the current month ("12/25"
\* in March is last year's, "02/14" in March this year's), in a table cell
\* and in a text line; a numeric date with a year keeps that year.
C10_YearInference ==
    /\ /\ pc = "parse_date_returned"
       /\ parse_date_ret # None
       /\ Yearless(parse_date_arg)
       => Inferred(parse_date_ret)
    /\ pc = "parse_date_returned" /\ now[2] = 3 =>
        /\ parse_date_arg = "12/25" => parse_date_ret = <<now[1] - 1, 12, 25>>
        /\ parse_date_arg = "02/14" => parse_date_ret = <<now[1], 2, 14>>
        /\ parse_date_arg = "3/9" => parse_date_ret = <<now[1], 3, 9>>
    /\ pc = "text_returned" =>
        \A k \in 1..Len(text_transactions) :
            Inferred(text_transactions[k].transaction_date)
    /\ pc = "table_returned" /\ YearlessTable(page_tables[1]) =>
        \A k \in 1..Len(table_transactions) :
            Inferred(table_transactions[k].transaction_date)
    /\ /\ pc = "parse_date_returned"
       /\ parse_date_ret # None
       /\ Len(SplitOn(parse_date_arg, "/")) = 3
       => parse_date_ret[1] = WrittenYear(parse_date_arg)
    /\ pc = "parse_date_returned" /\ parse_date_arg = "12/25/2023" =>
        parse_date_ret = <<2023, 12, 25>>

\* "12/25" parsed in March 2025 is 25 December 2024
C10_DecemberInMarch ==
    /\ pc = "parse_date_returned"
    /\ now = <<2025, 3>>
    /\ parse_date_arg = "12/25"
    /\ parse_date_ret = <<2024, 12, 25>>


\* the match that gives the date of a line when the single-date pattern is
\* attempted whenever the dual-date pattern does not resolve a month
ResolvingSearch(line) ==
    The({ IF MonthNumber(dual.mon) # 0 THEN dual ELSE SingleSearch(line) :
          dual \in {DualSearch(line)} })

\* the lines of the text handed to _extract_transactions_from_text that are
\* neither blank nor header lines, stripped
DataLines ==
    The({ {Strip(lines[k]) : k \in 1..Len(lines)}
            \ {l \in {Strip(lines[k]) : k \in 1..Len(lines)} :
                   l = "" \/ IsHeaderLine(l)} :
          lines \in {SplitOn(page_text[1], "\n")} })

\* line has a trailing positive amount and, after a date that ends at
\* date_end, a merchant text of two characters or more
PurchaseAfter(line, date_end) ==
    \E amount_match \in {TrailingAmountSearch(line)} :
        /\ amount_match.ok
        /\ FloatCents(Remove(amount_match.group, ",")) > 0
        /\ Len(CleanMerchant(Strip(SubSeq(line, date_end + 1,
                                          amount_match.start - 1)))) >= 2

\* C12: on every line that is neither blank nor a header line the date is
\* the second date of the dual-date pattern when that resolves, and else
\* the date of the single-date pattern, also when the dual-date shape
\* matched with a second token that is no month: a line with a valid
\* single date, a merchant and a trailing positive amount yields a
\* transaction with that date.
C12_SingleDateFallback ==
    (pc = "text_returned" /\ exc = "") =>
        \A line \in DataLines :
            \A d \in {MatchedDate(ResolvingSearch(line), now)} :
                (d.err = "" /\ d.date # None
                   /\ PurchaseAfter(line, d.date_end))
                  => \E k \in 1..Len(text_transactions) :
                         text_transactions[k].transaction_date = d.date


\* the cells of a row that are neither None nor empty
NonEmptyCells(row) == {k \in 1..Len(row) : Truthy(row[k])}

DateShaped(row, k) == DateCellMatch(Strip(row[k][1]))

\* the amount of the cell, -1 when the cell is not amount-shaped
CellAmount(row, k) ==
    The({ IF a = None THEN -1 ELSE FloatCents(Remove(a[1], ",")) :
          a \in {AmountSearch(Strip(row[k][1]))} })

\* the first cell of the row that is a date cell or a non-zero amount
\* cell, Len(row) + 1 when the row has neither
FirstCapture(row) ==
    The({ IF captures = {} THEN Len(row) + 1 ELSE Least(captures) :
          captures \in {{k \in NonEmptyCells(row) :
                            DateShaped(row, k) \/ CellAmount(row, k) > 0}} })

\* the first non-empty cell of the row is date-shaped, or is a positive
\* amount
DateOrAmountFirst(row) ==
    /\ NonEmptyCells(row) # {}
    /\ FirstCapture(row) = Least(NonEmptyCells(row))

RECURSIVE JoinCells(_, _)
\* the stripped cells of the row at the indices in S, in order, joined
\* with single spaces
JoinCells(row, S) ==
    IF S = {} THEN ""
    ELSE The({ IF S = {k} THEN Strip(row[k][1])
               ELSE Strip(row[k][1]) \o " " \o JoinCells(row, S \ {k}) :
               k \in {Least(S)} })

\* the merchant texts that can be put together from cells of the row that
\* stand before its first date or non-zero amount cell
MerchantsBefore(row) ==
    {JoinCells(row, S) :
         S \in SUBSET {k \in NonEmptyCells(row) : k < FirstCapture(row)}}

-----------------------------------------------------------------------------
(* SpecClassify: single calls of classify_transaction on merchants of at   *)
(* most MaxWords words.                                                    *)

MaxWords == 2

LongWord == "ACME-INDUSTRIAL-SUPPLY-COMPANY-OF-ONTARIO"

MerchantWords ==
    {"Presto", "rePayments", "COFFEE", "MCDONALD'S", "LOBLAWS", "STORE",
     LongWord}

Merchants ==
    {Join(words, " ") : words \in SeqsUpTo(MerchantWords, MaxWords) \ {<<>>}}

Monday == <<2025, 3, 3>>
Friday == <<2025, 3, 7>>
Saturday == <<2025, 3, 8>>
Sunday == <<2025, 3, 9>>

ClassifyDates == {Monday, Friday, Saturday, Sunday}

\* amounts in cents, around the thresholds 10.00, 25.00 and 100.00
ClassifyAmounts == {1000, 1001, 2500, 2501, 5000, 10000}

InitClassify ==
    /\ pc = "call"
    /\ exc = ""
    /\ now \in {<<2025, 3>>}
    /\ transactions = <<>>
    /\ NoPage
    /\ NoDateCall
    /\ NoClassification
    /\ NoAggregation
    /\ NoMain

\* classify.py lines 25-66: one call of classify_transaction
CallClassify ==
    /\ pc = "call"
    /\ \E merchant \in Merchants, date \in ClassifyDates,
          amount \in ClassifyAmounts :
         /\ txn' = [merchant_description |-> merchant,
                    transaction_date |-> date,
                    amount |-> amount]
         /\ category' = ClassifyTransaction(merchant, date, amount)
    /\ pc' = "classified"
    /\ UNCHANGED <<exc, now, pageVars, transactions, dateVars, aggregateVars,
                   mainVars>>

NextClassify == CallClassify

SpecClassify == InitClassify /\ [][NextClassify]_vars

\* the upper-case text holds one of the words of the table
Holds(merchant_upper, table) ==
    \E k \in 1..Len(table) : Contains(merchant_upper, table[k])

\* where the classified transaction stands in the cascade of section 4.5:
\* whether it holds an ignore pattern, an override pattern, a food
\* exclusion, and whether it is food-type
CascadeOf(merchant_upper) ==
    [presto |-> StartsWith(merchant_upper, "PRESTO"),
     payment |-> Contains(merchant_upper, "PAYMENT"),
     ignored |-> Holds(merchant_upper, IGNORE_PATTERNS),
     overridden |-> \E k \in 1..Len(HARD_OVERRIDES) :
                        Contains(merchant_upper, HARD_OVERRIDES[k][1]),
     excluded |-> Holds(merchant_upper, FOOD_EXCLUSIONS),
     food |-> /\ ~Holds(merchant_upper, FOOD_EXCLUSIONS)
              /\ \/ Holds(merchant_upper, FOOD_KEYWORDS)
                 \/ /\ txn.amount <= 2500
                    /\ Len(txn.merchant_description) < 40]

Cascade == CascadeOf(Upper(txn.merchant_description))

C5_PaymentIgnored ==
    pc = "classified" =>
        \A c \in {Cascade} : c.payment => category = None

\* "Presto rePayments", which matches the override "PRESTO", is ignored
C5_OverriddenPaymentIgnored ==
    /\ pc = "classified"
    /\ txn.merchant_description = "Presto rePayments"
    /\ category = None

\* C6: a food-type merchant that is neither ignored nor overridden is
\* "school meals" from Monday to Friday and "food" on Saturday and Sunday;
\* a merchant that holds a food exclusion is never classified as food.
C6_WeekdaySplit ==
    pc = "classified" =>
        \A c \in {Cascade} :
            ~c.ignored /\ ~c.overridden =>
                /\ c.food /\ txn.transaction_date \in {Monday, Friday}
                       => category = Some("school meals")
                /\ c.food /\ txn.transaction_date \in {Saturday, Sunday}
                       => category = Some("food")
                /\ c.excluded
                       => category \notin {Some("school meals"), Some("food")}

\* "MCDONALD'S" on a Saturday is "food"
C6_FoodOnSaturday ==
    /\ pc = "classified"
    /\ txn.merchant_description = "MCDONALD'S"
    /\ txn.transaction_date = Saturday
    /\ category = Some("food")

\* C7: a merchant that is not ignored, not overridden and not food-type is
\* "school" from 100.00 on, "groceries" up to 10.00 and "other" between
\* them; a merchant with an earlier verdict never gets this one.
C7_AmountFallback ==
    pc = "classified" =>
        \A c \in {Cascade} :
            /\ ~c.ignored /\ ~c.overridden /\ ~c.food =>
                /\ txn.amount >= 10000 => category = Some("school")
                /\ txn.amount <= 1000 => category = Some("groceries")
                /\ txn.amount > 1000 /\ txn.amount < 10000
                       => category = Some("other")
            /\ ~c.ignored /\ ~c.overridden /\ c.food
                   => category \in {Some("school meals"), Some("food")}
            /\ c.ignored => category = None

\* a merchant of 41 characters at exactly 100.00 is "school"
C7_SchoolAtHundred ==
    /\ pc = "classified"
    /\ txn.merchant_description = LongWord
    /\ txn.amount = 10000
    /\ category = Some("school")

-----------------------------------------------------------------------------
(* SpecAggregate: single calls of aggregate_by_category on lists of at     *)
(* most MaxTxns transactions with positive amounts.                        *)

MaxTxns == 3

AggregateTxns ==
    {Transaction("MCDONALD'S", Monday, 338),
     Transaction("PAYMENT - THANK YOU", Monday, 50000),
     Transaction("Presto", Saturday, 2000),
     Transaction("STORE", Saturday, 5000),
     Transaction("COFFEE", Friday, 450),
     Transaction(LongWord, Sunday, 10000)}

InitAggregate ==
    /\ pc = "call"
    /\ exc = ""
    /\ now \in {<<2025, 3>>}
    /\ transactions = <<>>
    /\ NoPage
    /\ NoDateCall
    /\ NoClassification
    /\ NoAggregation
    /\ NoMain

\* classify.py lines 69-101: one call of aggregate_by_category
CallAggregate ==
    /\ pc = "call"
    /\ \E list \in SeqsUpTo(AggregateTxns, MaxTxns) :
         \E r \in {AggregateByCategory(list)} :
             /\ transactions' = list
             /\ category_totals' = r.totals
             /\ skipped_count' = r.skipped
             /\ exc' = r.err
    /\ pc' = "aggregated"
    /\ UNCHANGED <<now, pageVars, dateVars, classifyVars, mainVars>>

NextAggregate == CallAggregate

SpecAggregate == InitAggregate /\ [][NextAggregate]_vars

\* the verdict of classify_transaction on each transaction of the list
Verdicts == [k \in 1..Len(transactions) |-> Classify(transactions[k])]

\* the positions with the verdict v
WithVerdict(verdicts, v) == {k \in DOMAIN verdicts : verdicts[k] = v}

RECURSIVE AmountOf(_)
\* the sum of the amounts of the transactions at the positions in S
AmountOf(S) ==
    IF S = {} THEN 0
    ELSE LET k == CHOOSE x \in S : TRUE
         IN  transactions[k].amount + AmountOf(S \ {k})

RECURSIVE TotalOf(_, _)
\* the sum of the totals of the categories in S
TotalOf(totals, S) ==
    IF S = {} THEN 0
    ELSE LET c == CHOOSE x \in S : TRUE
         IN  totals[c] + TotalOf(totals, S \ {c})

\* C8: the category totals add up to the sum of all amounts less the
\* amounts of the ignored transactions, the ignored count is the number
\* of ignored transactions, and the mapping holds exactly the categories
\* with a positive total, each with the sum of its transactions.
C8_TotalsAddUp ==
    pc = "aggregated" =>
        \A v \in {Verdicts} :
            /\ exc = ""
            /\ TotalOf(category_totals, DOMAIN category_totals)
                   = AmountOf(1..Len(transactions))
                       - AmountOf(WithVerdict(v, None))
            /\ skipped_count = Cardinality(WithVerdict(v, None))
            /\ DOMAIN category_totals
                   = {c \in CategorySet :
                          AmountOf(WithVerdict(v, Some(c))) > 0}
            /\ \A c \in DOMAIN category_totals :
                   category_totals[c] = AmountOf(WithVerdict(v, Some(c)))

\* three transactions, one of them ignored, the others in two categories
C8_OneIgnoredOfThree ==
    /\ pc = "aggregated"
    /\ Len(transactions) = 3
    /\ skipped_count = 1
    /\ Cardinality(DOMAIN category_totals) = 2


-----------------------------------------------------------------------------
(* SpecMain: main of run.py from "Parsing PDF" on, for a statement file,   *)
(* a configuration and credentials that exist.  The document is parsed by  *)
(* the page loop of Spec; the sink (SheetsWriter) answers each call either *)
(* way.                                                                    *)

\* "def aggregate_by_category(transactions: List)": the parameters, none
\* with a default value
AggregateByCategoryParams == <<"transactions">>

\* "aggregate_by_category(transactions, debug=args.debug)": one positional
\* argument and the keyword arguments
MainAggregateCall == [positional |-> 1, keywords |-> {"debug"}]

\* whether a call binds its arguments to the parameters of the function;
\* Python raises TypeError when it does not
Binds(params, call) ==
    /\ call.positional <= Len(params)
    /\ call.keywords
           = {params[k] : k \in (call.positional + 1)..Len(params)}

RECURSIVE GetTotalPurchases(_)
\* "sum(t.amount for t in self.transactions)"
GetTotalPurchases(list) ==
    IF list = <<>> THEN 0
    ELSE list[1].amount + GetTotalPurchases(Tail(list))

RECURSIVE SumTotals(_, _)
\* "for category, amount in sorted(category_totals.items()): total += amount"
SumTotals(totals, S) ==
    IF S = {} THEN 0
    ELSE The({ totals[c] + SumTotals(totals, S \ {c}) :
               c \in {CHOOSE x \in S : TRUE} })

\* "abs(pdf_total - total) > 0.01" on amounts in cents; the floats of a
\* difference of exactly one cent compare either way (rounds_up)
TotalsDiffer(pdf_total, total, rounds_up) ==
    \E diff \in {IF pdf_total >= total THEN pdf_total - total
                 ELSE total - pdf_total} :
        diff > 1 \/ (diff = 1 /\ rounds_up)

\* lines 96-116: the messages of the summary and of the cross-check
MainSummary(r, pdf_total, rounds_up) ==
    (IF r.skipped > 0 THEN <<"Skipped transactions">> ELSE <<>>)
      \o <<"Category Totals", "PDF total purchases", "Classified total">>
      \o (IF TotalsDiffer(pdf_total, SumTotals(r.totals, DOMAIN r.totals),
                          rounds_up)
          THEN <<"Warning: Totals don't match exactly">> ELSE <<>>)

\* lines 118-134: the pre-flight check and the append; connects is what
\* validate_connection returns, appends whether append_category_totals
\* returns (it raises otherwise)
MainWrite(connects, appends) ==
    IF ~connects
    THEN [pc |-> "exit_1",
          printed |-> <<"Writing to Google Sheet",
                        "Error: Could not connect to Google Sheet">>,
          sink |-> <<"validate_connection">>]
    ELSE [pc |-> IF appends THEN "exit_0" ELSE "exit_1",
          printed |-> <<"Writing to Google Sheet",
                        IF appends THEN "Successfully appended"
                        ELSE "Error writing to Google Sheet">>,
          sink |-> <<"validate_connection", "append_category_totals">>]

\* lines 94-134 once aggregate_by_category has been entered with list
MainAggregated(list, rounds_up, connects, appends) ==
    The({ IF r.err # ""
          THEN [pc |-> "main_raised", exc |-> r.err, printed |-> <<>>,
                sink |-> <<>>, totals |-> <<>>, skipped |-> 0]
          ELSE The({ [pc |-> w.pc, exc |-> "",
                      printed |-> MainSummary(r, GetTotalPurchases(list),
                                              rounds_up) \o w.printed,
                      sink |-> w.sink, totals |-> r.totals,
                      skipped |-> r.skipped] :
                     w \in {MainWrite(connects, appends)} }) :
          r \in {AggregateByCategory(list)} })

\* line 94: the call of aggregate_by_category and what follows it
MainClassified(list, rounds_up, connects, appends) ==
    IF ~Binds(AggregateByCategoryParams, MainAggregateCall)
    THEN [pc |-> "main_raised", exc |-> "TypeError", printed |-> <<>>,
          sink |-> <<>>, totals |-> <<>>, skipped |-> 0]
    ELSE MainAggregated(list, rounds_up, connects, appends)

InitMain ==
    /\ pc = "main"
    /\ exc = ""
    /\ now \in Clocks
    /\ transactions = <<>>
    /\ NoPage
    /\ NoDateCall
    /\ NoClassification
    /\ NoAggregation
    /\ NoMain

\* lines 79-82: main announces the parse and enters PDFParser.parse
MainStart ==
    /\ pc = "main"
    /\ pc' = "page"
    /\ printed' = <<"Parsing PDF">>
    /\ UNCHANGED <<exc, now, pageVars, transactions, dateVars, classifyVars,
                   aggregateVars, sink>>

\* lines 84-86: an exception left parse
MainParseFailed ==
    /\ pc = "raised"
    /\ pc' = "exit_1"
    /\ printed' = Append(printed, "Error parsing PDF")
    /\ UNCHANGED <<exc, now, pageVars, transactions, dateVars, classifyVars,
                   aggregateVars, sink>>

\* lines 83 and 88-90: parse returned a list without transactions
MainNoTransactions ==
    /\ pc = "returned"
    /\ transactions = <<>>
    /\ pc' = "exit_1"
    /\ printed' = printed \o <<"Found transactions",
                               "Warning: No transactions found in PDF">>
    /\ UNCHANGED <<exc, now, pageVars, transactions, dateVars, classifyVars,
                   aggregateVars, sink>>

\* lines 83 and 92-134: parse returned transactions
MainClassify ==
    /\ pc = "returned"
    /\ transactions # <<>>
    /\ \E rounds_up \in BOOLEAN, connects \in BOOLEAN, appends \in BOOLEAN :
         \E m \in {MainClassified(transactions, rounds_up, connects,
                                  appends)} :
             /\ pc' = m.pc
             /\ exc' = m.exc
             /\ printed' = printed \o <<"Found transactions",
                                        "Classifying transactions...">>
                             \o m.printed
             /\ sink' = m.sink
             /\ category_totals' = m.totals
             /\ skipped_count' = m.skipped
    /\ UNCHANGED <<now, pageVars, transactions, dateVars, classifyVars>>

NextMain ==
    \/ MainStart
    \/ PageTables
    \/ PageText
    \/ Return
    \/ MainParseFailed
    \/ MainNoTransactions
    \/ MainClassify

SpecMain == InitMain /\ [][NextMain]_vars


\* the run of main has ended
MainEnded == pc \in {"exit_0", "exit_1", "main_raised"}

Printed(msg) == \E k \in 1..Len(printed) : printed[k] = msg

\* the positions of the calls of op on the sink
Calls(op) == {k \in 1..Len(sink) : sink[k] = op}

\* the parser's total and the classified total of the parsed transactions
\* lie more than one cent apart
TotalsApart ==
    \E r \in {AggregateByCategory(transactions)} :
        /\ r.err = ""
        /\ TotalsDiffer(GetTotalPurchases(transactions),
                        SumTotals(r.totals, DOMAIN r.totals), FALSE)

\* C11: a run of main whose document parsed to at least one transaction
\* and whose parser total and classified total lie more than one cent
\* apart ends without an exception, having completed the aggregation,
\* printed the warning and called validate_connection; and
\* append_category_totals is called only after validate_connection, and
\* only when that call returned true.
C11_MismatchIsNonFatal ==
    /\ (MainEnded /\ Printed("Found transactions") /\ transactions # <<>>
          /\ TotalsApart)
         => /\ pc # "main_raised"
            /\ exc = ""
            /\ category_totals # <<>>
            /\ Printed("Warning: Totals don't match exactly")
            /\ Calls("validate_connection") # {}
    /\ \A k \in Calls("append_category_totals") :
           /\ \E j \in Calls("validate_connection") : j < k
           /\ ~Printed("Error: Could not connect to Google Sheet")

=============================================================================
